---------------------------- MODULE Spec2Model ----------------------------
(***************************************************************************)
(* A model of passwordpolicy.c, a PostgreSQL password-check module.        *)
(*                                                                         *)
(* The state is the module's five threshold globals (GUC variables), the   *)
(* init-once flag of _PG_init, the server's check_password_hook, and the   *)
(* frame of the check_password call in progress (its arguments, the loop   *)
(* index and the five counters of check_policy, and how it ended).         *)
(*                                                                         *)
(* Strings are sequences of byte values 1..255 (a C string holds no 0).    *)
(* ereport(ERROR, ...) does not return: it ends the call with the message. *)
(***************************************************************************)
EXTENDS Integers, Sequences, FiniteSets

VARIABLES
    guc,                 \* the five threshold globals, by GUC name
    conf_result,         \* outcome of the last attempt to set a GUC variable
    inited,              \* _PG_init's static flag
    check_password_hook, \* the server's hook: "NULL" or "check_password"
    pg_version_ge_10,    \* build: PG_VERSION_NUM >= 100000
    use_cracklib,        \* build: USE_CRACKLIB defined
    lc_ctype,            \* the process's LC_CTYPE locale, read by <ctype.h>
    pc,                  \* position of the call in progress
    username,            \* check_password's arguments
    shadow_pass,
    password_type,
    i,                   \* check_policy's locals
    letter_count,
    number_count,
    spc_char_count,
    upper_count,
    lower_count,
    fascist,             \* what FascistCheck returned, "none" if not called
    errmsg               \* the message of the ERROR raised, "" if none

cfgvars  == <<guc, conf_result, inited, check_password_hook>>
envvars  == <<pg_version_ge_10, use_cracklib, lc_ctype>>
argvars  == <<username, shadow_pass, password_type>>
tally    == <<i, letter_count, number_count, spc_char_count, upper_count, lower_count>>
vars     == <<cfgvars, envvars, argvars, tally, pc, fascist, errmsg>>

---------------------------------------------------------------------------
(* Bounds of the model *)

\* longest plaintext password enumerated
MaxPwdLen == 4

\* largest ordinary value offered for a threshold (INT_MAX is offered too)
MaxConf == 2

---------------------------------------------------------------------------
(* Program constants *)

INT_MAX == 2147483647

\* the GUC names and the C globals they are bound to
GucNames ==
    { "p_policy.min_password_len", "p_policy.min_special_chars",
      "p_policy.min_numbers", "p_policy.min_uppercase_letter",
      "p_policy.min_lowercase_letter" }

passMinLength    == guc["p_policy.min_password_len"]
passMinSpcChar   == guc["p_policy.min_special_chars"]
passMinNumChar   == guc["p_policy.min_numbers"]
passMinUpperChar == guc["p_policy.min_uppercase_letter"]
passMinLowerChar == guc["p_policy.min_lowercase_letter"]

\* the globals' static initialisers
StaticInit ==
    [ n \in GucNames |->
        IF n = "p_policy.min_password_len" THEN 8 ELSE 2 ]

\* bootValue, minValue and maxValue of each DefineCustomIntVariable call
BootValue(n) == IF n = "p_policy.min_password_len" THEN 8 ELSE 2
MinValue_ZeroSubMin(n) == IF n = "p_policy.min_password_len" THEN 1 ELSE 0
MinValue(n) == 1
MaxValue(n) == INT_MAX

---------------------------------------------------------------------------
(* <ctype.h> on one byte, under the process's LC_CTYPE.  In the "C" locale *)
(* only ASCII letters are alphabetic.  A single-byte locale (for example   *)
(* ISO-8859-1) adds letters among the bytes 128..255: upper-case ones,     *)
(* lower-case ones, and letters that are neither.                          *)

Locales == { "C", "ISO-8859-1" }

HighUpper(loc) == IF loc = "C" THEN {} ELSE (192..222) \ {215}
HighLower(loc) == IF loc = "C" THEN {} ELSE (223..255) \ {247}
HighOther(loc) == IF loc = "C" THEN {} ELSE {170, 186}

isupper(c) == c \in 65..90 \/ c \in HighUpper(lc_ctype)
islower(c) == c \in 97..122 \/ c \in HighLower(lc_ctype)
isalpha(c) == isupper(c) \/ islower(c) \/ c \in HighOther(lc_ctype)
isdigit(c) == c \in 48..57

strlen(s) == Len(s)

\* strstr with the match tried at the start of haystack only
strstr_PrefixOnly(haystack, needle) ==
    /\ Len(needle) <= Len(haystack)
    /\ \A j \in 1..Len(needle) : haystack[j] = needle[j]

\* strstr that finds no empty needle
strstr_NonEmptyNeedle(haystack, needle) ==
    /\ needle # <<>>
    /\ \E k \in 0..Len(haystack) :
         /\ k + Len(needle) <= Len(haystack)
         /\ \A j \in 1..Len(needle) : haystack[k + j] = needle[j]

\* strstr(haystack, needle) # NULL
strstr(haystack, needle) ==
    \E k \in 0..Len(haystack) :
        /\ k + Len(needle) <= Len(haystack)
        /\ \A j \in 1..Len(needle) : haystack[k + j] = needle[j]

---------------------------------------------------------------------------
(* The values check_password is called with *)

\* a space, a digit, an upper and a lower ASCII letter, and two bytes above
\* 127 (in ISO-8859-1: a lower-case letter and a letter without case)
Alphabet == {32, 49, 65, 97, 170, 233}

RECURSIVE StringsUpTo(_)
StringsUpTo(n) ==
    IF n = 0 THEN { <<>> }
    ELSE LET shorter == StringsUpTo(n - 1)
         IN  shorter \cup { Append(s, c) : s \in { t \in shorter : Len(t) = n - 1 },
                                             c \in Alphabet }

Passwords == StringsUpTo(MaxPwdLen)
Usernames == { <<>>, <<97>>, <<65, 49>> }

\* an already encoded credential: the scheme, what was hashed, and the salt
\* (an MD5 shadow password is salted with the role name)
Md5Shadow(passwd, salt) == [scheme |-> "md5", hashed |-> passwd, salt |-> salt]
ScramShadow(passwd) == [scheme |-> "scram-sha-256", hashed |-> passwd, salt |-> <<>>]

Md5Shadows == { Md5Shadow(p, s) : p \in Usernames, s \in Usernames }
ScramShadows == { ScramShadow(p) : p \in Usernames }

PasswordTypeOf(scheme) ==
    IF scheme = "md5" THEN "PASSWORD_TYPE_MD5" ELSE "PASSWORD_TYPE_SCRAM_SHA_256"

\* plain_crypt_verify that takes no account of the role name
plain_crypt_verify_AnyRole(role, shadow, client_pass) ==
    IF shadow.hashed = client_pass THEN "STATUS_OK" ELSE "STATUS_ERROR"

\* libpq's plain_crypt_verify(role, shadow_pass, client_pass, &logdetail)
plain_crypt_verify(role, shadow, client_pass) ==
    IF /\ shadow.hashed = client_pass
       /\ shadow.scheme = "md5" => shadow.salt = role
    THEN "STATUS_OK" ELSE "STATUS_ERROR"

---------------------------------------------------------------------------
(* check_policy *)

\* the loop body without its islower branch
Classify_NoLower(c, letters, numbers, spcs, uppers, lowers) ==
    IF isalpha(c)
    THEN IF isupper(c) THEN <<letters + 1, numbers, spcs, uppers + 1, lowers>>
         ELSE <<letters + 1, numbers, spcs, uppers, lowers>>
    ELSE IF isdigit(c) THEN <<letters, numbers + 1, spcs, uppers, lowers>>
    ELSE <<letters, numbers, spcs + 1, uppers, lowers>>

\* the counters after the loop body has run on byte c
Classify(c, letters, numbers, spcs, uppers, lowers) ==
    IF isalpha(c)
    THEN IF isupper(c) THEN <<letters + 1, numbers, spcs, uppers + 1, lowers>>
         ELSE IF islower(c) THEN <<letters + 1, numbers, spcs, uppers, lowers + 1>>
         ELSE <<letters + 1, numbers, spcs, uppers, lowers>>
    ELSE IF isdigit(c) THEN <<letters, numbers + 1, spcs, uppers, lowers>>
    ELSE <<letters, numbers, spcs + 1, uppers, lowers>>

\* the chain with the special-character test ahead of the digit test
PolicyError_SpecialFirst(numbers, spcs, uppers, lowers) ==
    IF spcs < passMinSpcChar
    THEN "password must contain atleast %d special characters."
    ELSE IF numbers < passMinNumChar
    THEN "password must contain atleast %d numeric characters."
    ELSE IF uppers < passMinUpperChar
    THEN "password must contain atleast %d upper case letters."
    ELSE IF lowers < passMinLowerChar
    THEN "password must contain atleast %d lower case letters."
    ELSE ""

\* the if / else-if chain after the loop: the message raised, "" if none
PolicyError(numbers, spcs, uppers, lowers) ==
    IF numbers < passMinNumChar
    THEN "password must contain atleast %d numeric characters."
    ELSE IF spcs < passMinSpcChar
    THEN "password must contain atleast %d special characters."
    ELSE IF uppers < passMinUpperChar
    THEN "password must contain atleast %d upper case letters."
    ELSE IF lowers < passMinLowerChar
    THEN "password must contain atleast %d lower case letters."
    ELSE ""

\* one iteration of the for loop
check_policy_loop ==
    /\ pc = "check_policy"
    /\ i < strlen(shadow_pass)
    /\ LET t == Classify(shadow_pass[i + 1], letter_count, number_count,
                         spc_char_count, upper_count, lower_count)
       IN  /\ letter_count' = t[1]
           /\ number_count' = t[2]
           /\ spc_char_count' = t[3]
           /\ upper_count' = t[4]
           /\ lower_count' = t[5]
    /\ i' = i + 1
    /\ UNCHANGED <<cfgvars, envvars, argvars, pc, fascist, errmsg>>

\* the loop has ended: the threshold comparisons, then back in check_password
check_policy_compare ==
    /\ pc = "check_policy"
    /\ ~(i < strlen(shadow_pass))
    /\ LET msg == PolicyError(number_count, spc_char_count, upper_count, lower_count)
       IN  IF msg # ""
           THEN pc' = "error" /\ errmsg' = msg
           ELSE /\ pc' = IF use_cracklib THEN "cracklib" ELSE "ok"
                /\ errmsg' = errmsg
    /\ UNCHANGED <<cfgvars, envvars, argvars, tally, fascist>>

---------------------------------------------------------------------------
(* check_password *)

TooShort_OffByOne(pwdlen) == pwdlen < passMinLength - 1

TooShort(pwdlen) == pwdlen < passMinLength

ContainsUsername(password, user) == strstr(password, user)

\* the non-plaintext branch: the message raised, "" if none.  md5_ok is
\* whether pg_md5_encrypt succeeded (it fails when out of memory).
EncryptedError(user, shadow, type, md5_ok) ==
    IF pg_version_ge_10
    THEN IF plain_crypt_verify(user, shadow, user) = "STATUS_OK"
         THEN "password must not contain user name"
         ELSE ""
    ELSE IF type = "PASSWORD_TYPE_MD5"
         THEN IF ~md5_ok THEN "password encryption failed."
              ELSE IF shadow = Md5Shadow(user, user)
                   THEN "password must not contain user name."
                   ELSE ""
         ELSE "unrecognized password type: %d."

\* entry of check_password with a non-plaintext credential
check_password_encrypted(Users, Shadows) ==
    /\ check_password_hook = "check_password"
    /\ pc = "idle"
    /\ \E user \in Users, shadow \in Shadows, md5_ok \in BOOLEAN :
         LET type == PasswordTypeOf(shadow.scheme)
             msg == EncryptedError(user, shadow, type, md5_ok)
         IN  /\ username' = user
             /\ shadow_pass' = shadow
             /\ password_type' = type
             /\ errmsg' = msg
             /\ pc' = IF msg # "" THEN "error" ELSE "ok"
    /\ i' = 0
    /\ letter_count' = 0
    /\ number_count' = 0
    /\ spc_char_count' = 0
    /\ upper_count' = 0
    /\ lower_count' = 0
    /\ fascist' = "none"
    /\ UNCHANGED <<cfgvars, envvars>>

\* entry of check_password with a plaintext password, up to the call of
\* check_policy
check_password_plaintext(Users, Pwds) ==
    /\ check_password_hook = "check_password"
    /\ pc = "idle"
    /\ \E user \in Users, password \in Pwds :
         /\ username' = user
         /\ shadow_pass' = password
         /\ password_type' = "PASSWORD_TYPE_PLAINTEXT"
         /\ IF TooShort(strlen(password))
            THEN pc' = "error" /\ errmsg' = "password is too short."
            ELSE IF ContainsUsername(password, user)
            THEN pc' = "error" /\ errmsg' = "password must not contain user name."
            ELSE pc' = "check_policy" /\ errmsg' = ""
    /\ i' = 0
    /\ letter_count' = 0
    /\ number_count' = 0
    /\ spc_char_count' = 0
    /\ upper_count' = 0
    /\ lower_count' = 0
    /\ fascist' = "none"
    /\ UNCHANGED <<cfgvars, envvars>>

\* FascistCheck(password, CRACKLIB_DICTPATH): NULL, or why the password is weak
check_password_cracklib ==
    /\ pc = "cracklib"
    /\ \E r \in {"NULL", "weak"} :
         /\ fascist' = r
         /\ IF r # "NULL"
            THEN pc' = "error" /\ errmsg' = "password is easily cracked."
            ELSE pc' = "ok" /\ errmsg' = errmsg
    /\ UNCHANGED <<cfgvars, envvars, argvars, tally>>

\* the call has ended, normally or by ERROR, and the server goes on to its
\* next command; the call's frame is gone
check_password_return ==
    /\ check_password_hook = "check_password"
    /\ pc \in {"ok", "error"}
    /\ pc' = "idle"
    /\ username' = <<>>
    /\ shadow_pass' = <<>>
    /\ password_type' = "PASSWORD_TYPE_PLAINTEXT"
    /\ i' = 0
    /\ letter_count' = 0
    /\ number_count' = 0
    /\ spc_char_count' = 0
    /\ upper_count' = 0
    /\ lower_count' = 0
    /\ fascist' = "none"
    /\ errmsg' = ""
    /\ UNCHANGED <<cfgvars, envvars>>

---------------------------------------------------------------------------
(* define_variables and _PG_init *)

\* the values a configuration file or a reload offers for a threshold
ConfValues == (0..MaxConf) \cup {INT_MAX}

\* a GUC variable takes an offered value inside [minValue, maxValue] only
InRange(n, v) == MinValue(n) <= v /\ v <= MaxValue(n)

\* DefineCustomIntVariable: the variable starts at its boot value, or at the
\* value the configuration file gives it when that value is in range
DefineCustomIntVariable(n, conf) ==
    IF InRange(n, conf[n]) THEN conf[n] ELSE BootValue(n)

\* a + b in int; -1 stands for a sum that has overflowed (the operands here
\* are at least 1, so no real sum is negative)
IntAdd(a, b) == IF a < 0 \/ b > INT_MAX - a THEN -1 ELSE a + b

\* the test of define_variables,
\*   passMinLength < (passMinSpcChar + passMinNumChar + passMinUpperChar + passMinLowerChar),
\* on thresholds g.  Signed overflow is undefined: the test then comes out
\* either way, as ub says.
SumExceedsLength(g, ub) ==
    LET sum == IntAdd(IntAdd(IntAdd(g["p_policy.min_special_chars"],
                                    g["p_policy.min_numbers"]),
                             g["p_policy.min_uppercase_letter"]),
                      g["p_policy.min_lowercase_letter"])
    IN  IF sum < 0 THEN ub ELSE g["p_policy.min_password_len"] < sum

\* _PG_init when already initialised: it returns at once
PG_init_again ==
    /\ inited
    /\ pc = "idle"
    /\ UNCHANGED vars

\* _PG_init at module load: define_variables, then the hook and the flag
PG_init ==
    /\ ~inited
    /\ pc = "idle"
    /\ \E conf \in [GucNames -> ConfValues], ub \in BOOLEAN :
         LET g == [n \in GucNames |-> DefineCustomIntVariable(n, conf)]
         IN  /\ guc' = g
             /\ conf_result' =
                  { [name |-> n, value |-> conf[n], applied |-> InRange(n, conf[n])] :
                      n \in GucNames }
             /\ IF SumExceedsLength(g, ub)
                THEN /\ pc' = "error"
                     /\ errmsg' = "configuration error."
                     /\ UNCHANGED <<inited, check_password_hook>>
                ELSE /\ check_password_hook' = "check_password"
                     /\ inited' = TRUE
                     /\ UNCHANGED <<pc, errmsg>>
    /\ UNCHANGED <<envvars, argvars, tally, fascist>>

\* a configuration reload (the variables are PGC_SIGHUP and have no check
\* hook): the new value of one variable is applied if it is in range
Reload ==
    /\ inited
    /\ pc = "idle"
    /\ \E n \in GucNames, v \in ConfValues :
         /\ guc' = IF InRange(n, v) THEN [guc EXCEPT ![n] = v] ELSE guc
         /\ conf_result' = { [name |-> n, value |-> v, applied |-> InRange(n, v)] }
    /\ UNCHANGED <<inited, check_password_hook, envvars, argvars, tally, pc, fascist, errmsg>>

---------------------------------------------------------------------------
(* Specifications *)

InitCall ==
    /\ pc = "idle"
    /\ username = <<>>
    /\ shadow_pass = <<>>
    /\ password_type = "PASSWORD_TYPE_PLAINTEXT"
    /\ i = 0
    /\ letter_count = 0
    /\ number_count = 0
    /\ spc_char_count = 0
    /\ upper_count = 0
    /\ lower_count = 0
    /\ fascist = "none"
    /\ errmsg = ""

InitEnv ==
    /\ pg_version_ge_10 \in BOOLEAN
    /\ use_cracklib \in BOOLEAN
    /\ lc_ctype \in Locales

\* the process before the module is loaded
Init ==
    /\ guc = StaticInit
    /\ conf_result = {}
    /\ inited = FALSE
    /\ check_password_hook = "NULL"
    /\ InitEnv
    /\ InitCall

\* the passwords tried while the configuration changes
FewPasswords == { <<65, 97, 49, 32>>, <<65, 49, 49, 32, 97>>, <<97, 97>> }

FewShadows == { Md5Shadow(<<97>>, <<97>>), ScramShadow(<<65, 49>>) }

Next ==
    \/ PG_init
    \/ PG_init_again
    \/ Reload
    \/ check_password_plaintext(Usernames, FewPasswords)
    \/ check_password_encrypted({<<97>>}, FewShadows)
    \/ check_policy_loop
    \/ check_policy_compare
    \/ check_password_cracklib
    \/ check_password_return

Spec == Init /\ [][Next]_vars

\* threshold settings the evaluation is explored under: the defaults, the
\* smallest setting a module load accepts, and one a reload can leave
Thresholds(len, spc, num, up, lo) ==
    [ n \in GucNames |->
        IF n = "p_policy.min_password_len" THEN len
        ELSE IF n = "p_policy.min_special_chars" THEN spc
        ELSE IF n = "p_policy.min_numbers" THEN num
        ELSE IF n = "p_policy.min_uppercase_letter" THEN up
        ELSE lo ]

EvalConfigs ==
    { Thresholds(8, 2, 2, 2, 2), Thresholds(4, 1, 1, 1, 1), Thresholds(2, 1, 1, 1, 1) }

\* a process in which the module is loaded, under one of EvalConfigs
InitEval ==
    /\ guc \in EvalConfigs
    /\ conf_result = {}
    /\ inited = TRUE
    /\ check_password_hook = "check_password"
    /\ InitEnv
    /\ InitCall

NextEval ==
    \/ check_password_plaintext(Usernames, Passwords)
    \/ check_password_encrypted(Usernames, Md5Shadows \cup ScramShadows)
    \/ check_policy_loop
    \/ check_policy_compare
    \/ check_password_cracklib
    \/ check_password_return

SpecEval == InitEval /\ [][NextEval]_vars

---------------------------------------------------------------------------
(* What the claims speak of, stated apart from the code's own computation *)

Plaintext == password_type = "PASSWORD_TYPE_PLAINTEXT"

MsgTooShort == "password is too short."
MsgUserName == "password must not contain user name."
MsgDigits   == "password must contain atleast %d numeric characters."
MsgSpecial  == "password must contain atleast %d special characters."
MsgUpper    == "password must contain atleast %d upper case letters."
MsgLower    == "password must contain atleast %d lower case letters."
MsgCracked  == "password is easily cracked."

\* user occurs in password as a contiguous run of bytes
IsSubstring(password, user) ==
    \E k \in 1..(Len(password) - Len(user) + 1) :
        SubSeq(password, k, k + Len(user) - 1) = user

\* the positions of the first n bytes of p that satisfy a test
DigitsIn(p, n)  == { k \in 1..n : isdigit(p[k]) }
UppersIn(p, n)  == { k \in 1..n : isalpha(p[k]) /\ isupper(p[k]) }
LowersIn(p, n)  == { k \in 1..n : isalpha(p[k]) /\ ~isupper(p[k]) /\ islower(p[k]) }
CaselessIn(p, n) == { k \in 1..n : isalpha(p[k]) /\ ~isupper(p[k]) /\ ~islower(p[k]) }
SpecialsIn(p, n) == { k \in 1..n : ~isalpha(p[k]) /\ ~isdigit(p[k]) }

IsAsciiLetter(c) == c \in 65..90 \/ c \in 97..122
IsAsciiDigit(c) == c \in 48..57
NotAsciiAlnumIn(p, n) == { k \in 1..n : ~IsAsciiLetter(p[k]) /\ ~IsAsciiDigit(p[k]) }

EnoughDigits(p)  == Cardinality(DigitsIn(p, Len(p))) >= passMinNumChar
EnoughSpecial(p) == Cardinality(SpecialsIn(p, Len(p))) >= passMinSpcChar
EnoughUpper(p)   == Cardinality(UppersIn(p, Len(p))) >= passMinUpperChar
EnoughLower(p)   == Cardinality(LowersIn(p, Len(p))) >= passMinLowerChar

\* min_length >= min_special_chars + min_digits + min_uppercase + min_lowercase
\* on thresholds g, in the integers (no partial result leaves the int range)
ConfigOK(g) ==
    LET r1 == g["p_policy.min_password_len"] - g["p_policy.min_special_chars"]
        r2 == r1 - g["p_policy.min_numbers"]
        r3 == r2 - g["p_policy.min_uppercase_letter"]
        r4 == r3 - g["p_policy.min_lowercase_letter"]
    IN  r1 >= 0 /\ r2 >= 0 /\ r3 >= 0 /\ r4 >= 0

\* a plaintext call that has got past the length and the user name checks
\* and through check_policy
PastPolicy ==
    /\ Plaintext /\ pc \in {"cracklib", "ok", "error"}
    /\ Len(shadow_pass) >= passMinLength
    /\ ~IsSubstring(shadow_pass, username)

---------------------------------------------------------------------------
(* C1: a plaintext password shorter than min_length is rejected as too     *)
(* short, whatever the user name and the password's composition, and with  *)
(* no other reason: no later check runs.                                   *)
C1_TooShortRejected ==
    (Plaintext /\ pc # "idle" /\ Len(shadow_pass) < passMinLength)
        => /\ pc = "error"
           /\ errmsg = MsgTooShort
           /\ i = 0
           /\ fascist = "none"

\* a too short password that also contains the user name
C1_Witness ==
    /\ Plaintext /\ pc = "error" /\ errmsg = MsgTooShort
    /\ Len(shadow_pass) = passMinLength - 1
    /\ username # <<>> /\ IsSubstring(shadow_pass, username)

(* C2: a plaintext password of length >= min_length that contains the user *)
(* name as a contiguous, case-sensitive substring is rejected with the     *)
(* user name reason, whatever its composition.                             *)
C2_ContainsUsernameRejected ==
    (Plaintext /\ pc # "idle" /\ Len(shadow_pass) >= passMinLength
               /\ IsSubstring(shadow_pass, username))
        => /\ pc = "error"
           /\ errmsg = MsgUserName
           /\ i = 0

\* the user name inside a password whose composition meets every minimum
C2_Witness ==
    /\ Plaintext /\ pc = "error" /\ errmsg = MsgUserName
    /\ username # <<>>
    /\ Len(username) <= Len(shadow_pass)
    /\ SubSeq(shadow_pass, 1, Len(username)) # username
    /\ EnoughDigits(shadow_pass) /\ EnoughSpecial(shadow_pass)
    /\ EnoughUpper(shadow_pass) /\ EnoughLower(shadow_pass)

(* C3: past the length and user name checks the reason reported is that of *)
(* the first failing check in the order digits, special, upper case, lower *)
(* case, dictionary; the dictionary is consulted only when the four count  *)
(* checks pass.                                                            *)
C3_FirstFailingCheck ==
    /\ PastPolicy =>
         errmsg = IF ~EnoughDigits(shadow_pass) THEN MsgDigits
                  ELSE IF ~EnoughSpecial(shadow_pass) THEN MsgSpecial
                  ELSE IF ~EnoughUpper(shadow_pass) THEN MsgUpper
                  ELSE IF ~EnoughLower(shadow_pass) THEN MsgLower
                  ELSE IF fascist = "weak" THEN MsgCracked
                  ELSE ""
    /\ (fascist # "none" \/ pc = "cracklib") =>
         /\ Plaintext /\ use_cracklib
         /\ EnoughDigits(shadow_pass) /\ EnoughSpecial(shadow_pass)
         /\ EnoughUpper(shadow_pass) /\ EnoughLower(shadow_pass)

\* a password of upper-case letters only: too few digits is reported, though
\* special and lower-case characters are missing too
C3_Witness ==
    /\ PastPolicy /\ errmsg = MsgDigits
    /\ \A k \in 1..Len(shadow_pass) : shadow_pass[k] = 65
    /\ ~EnoughSpecial(shadow_pass) /\ ~EnoughLower(shadow_pass)

(* C4: a plaintext call ends with exactly one outcome, and it is Accept    *)
(* exactly when the password is long enough, does not contain the user     *)
(* name, meets the four minimums, and no dictionary checker is built in or *)
(* it finds the password not guessable.  A call that has not ended can     *)
(* take a step, and the loop index never passes the password's length.     *)
C4_AcceptIff ==
    /\ (Plaintext /\ pc \in {"ok", "error"}) =>
         /\ pc = "ok" <=>
              /\ Len(shadow_pass) >= passMinLength
              /\ ~IsSubstring(shadow_pass, username)
              /\ EnoughDigits(shadow_pass) /\ EnoughSpecial(shadow_pass)
              /\ EnoughUpper(shadow_pass) /\ EnoughLower(shadow_pass)
              /\ (~use_cracklib \/ fascist = "NULL")
         /\ pc = "ok" <=> errmsg = ""
    /\ pc = "check_policy" =>
         /\ i <= Len(shadow_pass)
         /\ ENABLED (check_policy_loop \/ check_policy_compare)
    /\ pc = "cracklib" => ENABLED check_password_cracklib

\* an accepted password, with a user name that is not empty and the
\* dictionary consulted
C4_Witness ==
    /\ Plaintext /\ pc = "ok" /\ errmsg = ""
    /\ username # <<>> /\ use_cracklib /\ fascist = "NULL"

(* C10: with the empty user name no plaintext password is accepted: one of *)
(* length >= min_length is rejected with the user name reason, a shorter   *)
(* one as too short.                                                       *)
C10_EmptyUsernameNeverAccepted ==
    (Plaintext /\ pc # "idle" /\ username = <<>>)
        => /\ pc = "error"
           /\ errmsg = IF Len(shadow_pass) >= passMinLength
                       THEN MsgUserName ELSE MsgTooShort

\* a password that meets every minimum, rejected for the empty user name
C10_Witness ==
    /\ Plaintext /\ pc = "error" /\ username = <<>> /\ errmsg = MsgUserName
    /\ Len(shadow_pass) >= passMinLength
    /\ EnoughDigits(shadow_pass) /\ EnoughSpecial(shadow_pass)
    /\ EnoughUpper(shadow_pass) /\ EnoughLower(shadow_pass)

---------------------------------------------------------------------------
(* C9: the classification pass puts every byte in exactly one bucket: at   *)
(* every step i of the loop and at its end the five buckets add up to the  *)
(* bytes processed, letters = upper + lower + caseless letters, and every  *)
(* byte that is neither an ASCII letter nor a decimal digit is counted as  *)
(* special.                                                                *)
InPolicy ==
    /\ Plaintext /\ pc \in {"check_policy", "cracklib", "ok", "error"}
    /\ Len(shadow_pass) >= passMinLength
    /\ ~IsSubstring(shadow_pass, username)

C9_ClassificationPartition ==
    InPolicy =>
        /\ number_count + spc_char_count + upper_count + lower_count
             + Cardinality(CaselessIn(shadow_pass, i)) = i
        /\ letter_count = upper_count + lower_count
                            + Cardinality(CaselessIn(shadow_pass, i))
        /\ spc_char_count = Cardinality(NotAsciiAlnumIn(shadow_pass, i))

\* the part of C9 that does not say which bytes are letters: the buckets
\* partition the bytes processed, each counter counting its own class
TallyPartition ==
    InPolicy =>
        /\ number_count + spc_char_count + upper_count + lower_count
             + Cardinality(CaselessIn(shadow_pass, i)) = i
        /\ letter_count = upper_count + lower_count
                            + Cardinality(CaselessIn(shadow_pass, i))
        /\ number_count = Cardinality(DigitsIn(shadow_pass, i))
        /\ upper_count = Cardinality(UppersIn(shadow_pass, i))
        /\ lower_count = Cardinality(LowersIn(shadow_pass, i))
        /\ spc_char_count = Cardinality(SpecialsIn(shadow_pass, i))
        /\ lc_ctype = "C" =>
             spc_char_count = Cardinality(NotAsciiAlnumIn(shadow_pass, i))

---------------------------------------------------------------------------
(* C8: for a credential that is not plaintext none of the length, user     *)
(* name, composition or dictionary checks runs; it is rejected exactly     *)
(* when it verifies against the user name used as the password, and        *)
(* accepted in every other case.                                           *)
Verifies(shadow, user) ==
    /\ shadow.hashed = user
    /\ shadow.scheme = "md5" => shadow.salt = user

NoPlaintextCheckRan ==
    /\ pc \in {"ok", "error"}
    /\ i = 0 /\ letter_count = 0 /\ number_count = 0 /\ spc_char_count = 0
    /\ upper_count = 0 /\ lower_count = 0
    /\ fascist = "none"
    /\ errmsg \notin {MsgTooShort, MsgDigits, MsgSpecial, MsgUpper, MsgLower, MsgCracked}

C8_EncryptedRejectedIffVerifies ==
    (~Plaintext /\ pc # "idle") =>
        /\ NoPlaintextCheckRan
        /\ pc = "error" <=> Verifies(shadow_pass, username)
        /\ pc = "error" =>
             errmsg \in {MsgUserName, "password must not contain user name"}

(* C8 as amended: as above, except that the build for servers before       *)
(* version 10 raises an internal error, and so does not accept, when       *)
(* hashing the user name fails or the password type is neither plaintext   *)
(* nor MD5.                                                                *)
C8_Amended ==
    (~Plaintext /\ pc # "idle") =>
        /\ NoPlaintextCheckRan
        /\ pc = "ok" <=> errmsg = ""
        /\ IF pg_version_ge_10
           THEN errmsg = IF Verifies(shadow_pass, username)
                         THEN "password must not contain user name" ELSE ""
           ELSE IF password_type # "PASSWORD_TYPE_MD5"
           THEN errmsg = "unrecognized password type: %d."
           ELSE \/ errmsg = "password encryption failed."
                \/ errmsg = IF Verifies(shadow_pass, username) THEN MsgUserName ELSE ""

\* accepted: the hash of a password that is the user name itself, shorter
\* than min_length, under another salt
C8_Witness ==
    /\ ~Plaintext /\ pc = "ok"
    /\ username # <<>>
    /\ shadow_pass.hashed = username
    /\ Len(shadow_pass.hashed) < passMinLength

---------------------------------------------------------------------------
(* C5: after any sequence of threshold changes the thresholds satisfy      *)
(* min_length >= min_special_chars + min_digits + min_uppercase +          *)
(* min_lowercase: a change that would break this is refused and the        *)
(* previous values stay.                                                   *)
C5_ReloadKeepsInvariant ==
    [][(inited /\ ConfigOK(guc)) => ConfigOK(guc')]_vars

(* C6: if at module load the thresholds violate the invariant, the         *)
(* initialisation fails before the hook is installed: the hook stays unset *)
(* and the init-done flag false.                                           *)
C6_LoadFailsFast ==
    [][(~inited /\ ~ConfigOK(guc'))
          => (~inited' /\ check_password_hook' = "NULL" /\ pc' = "error")]_vars

\* C6 for thresholds whose sum stays inside the int range
C6_LoadFailsFastNoOverflow ==
    [][(~inited /\ ~ConfigOK(guc') /\ \A n \in GucNames : guc'[n] < INT_MAX)
          => (~inited' /\ check_password_hook' = "NULL" /\ pc' = "error")]_vars

---------------------------------------------------------------------------
(* C7: the configuration accepts every value in the stated ranges,         *)
(* min_length >= 1 and each of the four sub-minimums >= 0, zero included,  *)
(* as long as the sum of the four does not exceed min_length.              *)

\* the thresholds as the last configuration processing asked for them
Candidate ==
    [ n \in GucNames |->
        IF \E r \in conf_result : r.name = n
        THEN (CHOOSE r \in conf_result : r.name = n).value
        ELSE guc[n] ]

StatedMin(n) == IF n = "p_policy.min_password_len" THEN 1 ELSE 0

C7_StatedRangesAccepted ==
    inited => \A r \in conf_result :
        ((\A n \in GucNames : Candidate[n] >= StatedMin(n)) /\ ConfigOK(Candidate))
            => r.applied

(* C7 as amended: each of the five settings accepts exactly the integers   *)
(* from 1 to INT_MAX, so 0 is refused for the four sub-minimums as well;   *)
(* an accepted value is the variable's new value.                          *)
C7_Amended ==
    \A r \in conf_result :
        /\ r.applied <=> (1 <= r.value /\ r.value <= INT_MAX)
        /\ r.applied => guc[r.name] = r.value

\* a reload that offers 0 for a sub-minimum, and is refused
C7_Witness ==
    /\ inited
    /\ \E r \in conf_result :
         /\ r.name # "p_policy.min_password_len"
         /\ r.value = 0
         /\ ~r.applied
         /\ guc[r.name] # 0

===========================================================================
